---- MODULE Spec2Model ----
(***************************************************************************)
(* geodude: geohash calculation with a process-wide memoization cache.     *)
(*                                                                         *)
(* src/src/geodude/cluster_functions.py defines                            *)
(*   _calculate_single_geohash(lat, lon, precision)   decorated with       *)
(*        functools.lru_cache(maxsize=10000)                               *)
(*   calculate_geohashes(lats, lons, precision)                            *)
(*                                                                         *)
(* Numbers.  Latitudes and longitudes are decimal degrees with four        *)
(* decimals, held as integers in units of 1/10000 degree (37.7749 is       *)
(* 377749).  The encoder's bisection only compares a coordinate with       *)
(* dyadic fractions of the range, so it is computed exactly on these       *)
(* integers (see encode).                                                  *)
(*                                                                         *)
(* Geohashes are sequences of one-character strings.                       *)
(***************************************************************************)
EXTENDS Integers, Sequences, FiniteSets, TLC

VARIABLES
    cache,      \* the lru_cache of _calculate_single_geohash: entries
                \* [key, val], least recently used first
    before,     \* the cache as it was when the last call started
    call,       \* the last call: [op, lats, lons, precision]
    outcome,    \* what the last call did: [status, value, error]
    encoded,    \* the triples handed to geohash.encode by the last call
    lookups,    \* the keys the last call looked up in the cache
    remembered  \* history variable: one earlier successful batch call

vars == <<cache, before, call, outcome, encoded, lookups, remembered>>

-----------------------------------------------------------------------------
(* Bounds of the model *)

\* longest latitude / longitude list handed to calculate_geohashes
MaxLen == 2

\* capacity of the lru_cache.  The source sets maxsize=10000
\* (cluster_functions.py line 9); the model runs the same least-recently-
\* used bookkeeping with a small capacity so that a full cache and
\* evictions are reached.
maxsize == 2

-----------------------------------------------------------------------------
(* Values *)

SF == <<377749, -1224194>>
NY == <<407128, -740060>>

Min(a, b) == IF a < b THEN a ELSE b

NoError == [kind |-> "none", got |-> <<>>]

-----------------------------------------------------------------------------
(* Inputs *)

(* Inputs of the main specification: San Francisco, New York, a latitude   *)
(* and a longitude out of range (91.0 and 181.0, tests/conftest.py), two   *)
(* valid precisions and one out of range.                                  *)
Points == {SF, NY, <<910000, SF[2]>>, <<SF[1], 1810000>>}
Precisions == {1, 5, 13}

\* single coordinates at and just outside the edges of the ranges
EdgePoints ==
    { <<-900000, -1800000>>, <<900000, 1800000>>, <<-900000, 1800000>>, SF,
      NY,
      <<-900001, 0>>, <<900001, 0>>, <<0, -1800001>>, <<0, 1800001>>,
      <<910000, 1810000>> }
EdgePrecisions == 0..13

\* repeated calls: one valid coordinate, one latitude out of range
HistPoints == {SF, <<910000, SF[2]>>}
HistPrecisions == {1, 2, 5, 12, 13}

\* cache keys: coordinates that differ from one another in the latitude
\* only, in the longitude only, or in both, at two precisions
KeyPoints == {SF, NY, <<SF[1], NY[2]>>, <<NY[1], SF[2]>>}
KeyPrecisions == {5, 8}

-----------------------------------------------------------------------------
(* pygeodesy.geohash.encode: the standard geohash.  Bisect the longitude   *)
(* range [-180, 180] and the latitude range [-90, 90] in turn, longitude   *)
(* first; the upper half gives bit 1; every five bits give one character   *)
(* of the base-32 alphabet.                                                *)
(*                                                                         *)
(* x and y are the coordinate's offsets inside the current longitude and   *)
(* latitude intervals, in units in which the interval is LonSpan (LatSpan) *)
(* long: "lon < mid" is 2*x < LonSpan, and halving the interval doubles    *)
(* the offset.                                                             *)

Base32 ==
    << "0", "1", "2", "3", "4", "5", "6", "7", "8", "9", "b", "c", "d", "e",
       "f", "g", "h", "j", "k", "m", "n", "p", "q", "r", "s", "t", "u", "v",
       "w", "x", "y", "z" >>

LonSpan == 360 * 10000
LatSpan == 180 * 10000

RECURSIVE bisect(_, _, _, _, _, _, _)
bisect(x, y, d, b, i, gh, p) ==
    IF Len(gh) >= p THEN gh
    ELSE LET up == IF d THEN 2 * x >= LonSpan ELSE 2 * y >= LatSpan
             i2 == 2 * i + (IF up THEN 1 ELSE 0)
             x2 == IF d THEN (IF up THEN 2 * x - LonSpan ELSE 2 * x) ELSE x
             y2 == IF d THEN y ELSE (IF up THEN 2 * y - LatSpan ELSE 2 * y)
         IN  IF b = 4
             THEN bisect(x2, y2, ~d, 0, 0, Append(gh, Base32[i2 + 1]), p)
             ELSE bisect(x2, y2, ~d, b + 1, i2, gh, p)

encode(lat, lon, precision) ==
    bisect(lon + 180 * 10000, lat + 90 * 10000, TRUE, 0, 0, <<>>, precision)

\* the arguments the encoder accepts; it raises its own error on others
encodable(lat, lon, precision) ==
    /\ -90 * 10000 <= lat /\ lat <= 90 * 10000
    /\ -180 * 10000 <= lon /\ lon <= 180 * 10000
    /\ 1 <= precision /\ precision <= 12

\* encode on the inputs of the model, computed once
EncodeTable ==
    [t \in {u \in (Points \cup EdgePoints \cup HistPoints \cup KeyPoints)
                    \X (Precisions \cup EdgePrecisions \cup HistPrecisions
                            \cup KeyPrecisions) :
                encodable(u[1][1], u[1][2], u[2])} |->
        encode(t[1][1], t[1][2], t[2])] @@ <<>>

\* the call geohash.encode(lat, lon, precision) of line 31
geohash_encode(lat, lon, precision) ==
    IF ~encodable(lat, lon, precision)
    THEN [raised |-> TRUE, value |-> <<>>]
    ELSE IF <<<<lat, lon>>, precision>> \in DOMAIN EncodeTable
    THEN [raised |-> FALSE, value |-> EncodeTable[<<<<lat, lon>>, precision>>]]
    ELSE [raised |-> FALSE, value |-> encode(lat, lon, precision)]

-----------------------------------------------------------------------------
(* _calculate_single_geohash, the function body (lines 24-31) *)

\* mutant: the range checks with the end points excluded
validate_exclusive(lat, lon, precision) ==
    IF ~(-90 * 10000 < lat /\ lat < 90 * 10000)
    THEN [kind |-> "latitude", got |-> <<lat>>]
    ELSE IF ~(-180 * 10000 < lon /\ lon < 180 * 10000)
    THEN [kind |-> "longitude", got |-> <<lon>>]
    ELSE IF ~(1 < precision /\ precision < 12)
    THEN [kind |-> "precision", got |-> <<precision>>]
    ELSE NoError

\* mutant: the three range checks in the reverse order
validate_precision_first(lat, lon, precision) ==
    IF ~(1 <= precision /\ precision <= 12)
    THEN [kind |-> "precision", got |-> <<precision>>]
    ELSE IF ~(-180 * 10000 <= lon /\ lon <= 180 * 10000)
    THEN [kind |-> "longitude", got |-> <<lon>>]
    ELSE IF ~(-90 * 10000 <= lat /\ lat <= 90 * 10000)
    THEN [kind |-> "latitude", got |-> <<lat>>]
    ELSE NoError

\* the three range checks, in the order of the code
validate(lat, lon, precision) ==
    IF ~(-90 * 10000 <= lat /\ lat <= 90 * 10000)
    THEN [kind |-> "latitude", got |-> <<lat>>]
    ELSE IF ~(-180 * 10000 <= lon /\ lon <= 180 * 10000)
    THEN [kind |-> "longitude", got |-> <<lon>>]
    ELSE IF ~(1 <= precision /\ precision <= 12)
    THEN [kind |-> "precision", got |-> <<precision>>]
    ELSE NoError

\* mutant: the body encodes at precision 5 whatever precision is asked
single_geohash_body_precision_5(lat, lon, precision) ==
    LET e == validate(lat, lon, precision)
        g == geohash_encode(lat, lon, 5)
    IN  IF e.kind # "none"
        THEN [ok |-> FALSE, error |-> e, value |-> <<>>, encoded |-> <<>>]
        ELSE [ok |-> ~g.raised,
              error |-> IF g.raised
                        THEN [kind |-> "GeohashError", got |-> <<lat, lon, 5>>]
                        ELSE NoError,
              value |-> g.value,
              encoded |-> << <<lat, lon, 5>> >>]

\* mutant: the body asks the encoder for all 12 characters and keeps the
\* last ones instead of the first ones
single_geohash_body_suffix(lat, lon, precision) ==
    LET e == validate(lat, lon, precision)
        g == geohash_encode(lat, lon, 12)
    IN  IF e.kind # "none"
        THEN [ok |-> FALSE, error |-> e, value |-> <<>>, encoded |-> <<>>]
        ELSE [ok |-> ~g.raised,
              error |-> IF g.raised
                        THEN [kind |-> "GeohashError", got |-> <<lat, lon, 12>>]
                        ELSE NoError,
              value |-> SubSeq(g.value, 12 - precision + 1, 12),
              encoded |-> << <<lat, lon, 12>> >>]

\* mutant: an invalid triple gets the empty string instead of an error
single_geohash_body_fallback(lat, lon, precision) ==
    LET e == validate(lat, lon, precision)
        g == geohash_encode(lat, lon, precision)
    IN  IF e.kind # "none"
        THEN [ok |-> TRUE, error |-> NoError, value |-> <<>>,
              encoded |-> <<>>]
        ELSE [ok |-> ~g.raised,
              error |-> IF g.raised
                        THEN [kind |-> "GeohashError",
                              got |-> <<lat, lon, precision>>]
                        ELSE NoError,
              value |-> g.value,
              encoded |-> << <<lat, lon, precision>> >>]

\* mutant: a precision above 12 is cut down to 12 instead of being refused
single_geohash_body_capped_precision(lat, lon, precision) ==
    LET p == IF precision > 12 THEN 12 ELSE precision
        e == validate(lat, lon, p)
        g == geohash_encode(lat, lon, p)
    IN  IF e.kind # "none"
        THEN [ok |-> FALSE, error |-> e, value |-> <<>>, encoded |-> <<>>]
        ELSE [ok |-> ~g.raised,
              error |-> IF g.raised
                        THEN [kind |-> "GeohashError",
                              got |-> <<lat, lon, p>>]
                        ELSE NoError,
              value |-> g.value,
              encoded |-> << <<lat, lon, p>> >>]

\* the undecorated function: raise ValueError or return geohash.encode(...)
\* (an error of the encoder would propagate)
single_geohash_body(lat, lon, precision) ==
    LET e == validate(lat, lon, precision)
        g == geohash_encode(lat, lon, precision)
    IN  IF e.kind # "none"
        THEN [ok |-> FALSE, error |-> e, value |-> <<>>, encoded |-> <<>>]
        ELSE [ok |-> ~g.raised,
              error |-> IF g.raised
                        THEN [kind |-> "GeohashError",
                              got |-> <<lat, lon, precision>>]
                        ELSE NoError,
              value |-> g.value,
              encoded |-> << <<lat, lon, precision>> >>]

-----------------------------------------------------------------------------
(* functools.lru_cache(maxsize) around the body (lines 9-10) *)

\* mutant: a key that leaves the precision out
make_key_no_precision(lat, lon, precision) == <<lat, lon>>

\* mutant: the key leaves out the longitude
make_key_no_longitude(lat, lon, precision) == <<lat, precision>>

\* the cache key of a positional call: the argument tuple
make_key(lat, lon, precision) == <<lat, lon, precision>>

\* position of key in cache c, 0 when absent
cache_index(c, key) ==
    IF \E i \in 1..Len(c) : c[i].key = key
    THEN CHOOSE i \in 1..Len(c) : c[i].key = key
    ELSE 0

Without(c, i) == SubSeq(c, 1, i - 1) \o SubSeq(c, i + 1, Len(c))

\* mutant: a hit leaves the entry where it is (first in, first out)
cache_touch_in_place(c, i) == c

\* a hit moves the entry to the most-recently-used end
cache_touch(c, i) == Append(Without(c, i), c[i])

\* mutant: a store that never evicts
cache_store_unbounded(c, key, val) == Append(c, [key |-> key, val |-> val])

\* a miss stores the result; a full cache first drops its oldest entry
cache_store(c, key, val) ==
    IF Len(c) >= maxsize
    THEN Append(Tail(c), [key |-> key, val |-> val])
    ELSE Append(c, [key |-> key, val |-> val])

\* mutant: a hit returns the most recently used entry's value instead of
\* the value of the entry found
single_geohash_last_result(c, lat, lon, precision) ==
    LET key == make_key(lat, lon, precision)
        i == cache_index(c, key)
    IN  IF i # 0
        THEN [cache |-> cache_touch(c, i), ok |-> TRUE, error |-> NoError,
              value |-> c[Len(c)].val, encoded |-> <<>>, lookups |-> <<key>>]
        ELSE LET r == single_geohash_body(lat, lon, precision)
             IN  [cache |-> IF r.ok THEN cache_store(c, key, r.value) ELSE c,
                  ok |-> r.ok, error |-> r.error, value |-> r.value,
                  encoded |-> r.encoded, lookups |-> <<key>>]

\* mutant: the range checks run before the cache is looked at
single_geohash_validate_first(c, lat, lon, precision) ==
    LET key == make_key(lat, lon, precision)
        i == cache_index(c, key)
        e == validate(lat, lon, precision)
    IN  IF e.kind # "none"
        THEN [cache |-> c, ok |-> FALSE, error |-> e, value |-> <<>>,
              encoded |-> <<>>, lookups |-> <<>>]
        ELSE IF i # 0
        THEN [cache |-> cache_touch(c, i), ok |-> TRUE, error |-> NoError,
              value |-> c[i].val, encoded |-> <<>>, lookups |-> <<key>>]
        ELSE LET r == single_geohash_body(lat, lon, precision)
             IN  [cache |-> IF r.ok THEN cache_store(c, key, r.value) ELSE c,
                  ok |-> r.ok, error |-> r.error, value |-> r.value,
                  encoded |-> r.encoded, lookups |-> <<key>>]

\* mutant: a call that raises is stored too, with no value
single_geohash_stores_failures(c, lat, lon, precision) ==
    LET key == make_key(lat, lon, precision)
        i == cache_index(c, key)
    IN  IF i # 0
        THEN [cache |-> cache_touch(c, i), ok |-> c[i].val # <<>>,
              error |-> IF c[i].val # <<>> THEN NoError
                        ELSE validate(lat, lon, precision),
              value |-> c[i].val, encoded |-> <<>>, lookups |-> <<key>>]
        ELSE LET r == single_geohash_body(lat, lon, precision)
             IN  [cache |-> cache_store(c, key, r.value),
                  ok |-> r.ok, error |-> r.error, value |-> r.value,
                  encoded |-> r.encoded, lookups |-> <<key>>]

\* mutant: a hit still runs the function body and keeps the stored value
single_geohash_always_encodes(c, lat, lon, precision) ==
    LET key == make_key(lat, lon, precision)
        i == cache_index(c, key)
        r == single_geohash_body(lat, lon, precision)
    IN  IF i # 0
        THEN [cache |-> cache_touch(c, i), ok |-> TRUE, error |-> NoError,
              value |-> c[i].val, encoded |-> r.encoded, lookups |-> <<key>>]
        ELSE [cache |-> IF r.ok THEN cache_store(c, key, r.value) ELSE c,
              ok |-> r.ok, error |-> r.error, value |-> r.value,
              encoded |-> r.encoded, lookups |-> <<key>>]

\* one call of the decorated function on cache c.  The wrapper looks the
\* key up first; on a miss it runs the body, and stores the result only
\* when the body returns (an exception propagates, nothing is stored).
calculate_single_geohash(c, lat, lon, precision) ==
    LET key == make_key(lat, lon, precision)
        i == cache_index(c, key)
    IN  IF i # 0
        THEN [cache |-> cache_touch(c, i), ok |-> TRUE, error |-> NoError,
              value |-> c[i].val, encoded |-> <<>>, lookups |-> <<key>>]
        ELSE LET r == single_geohash_body(lat, lon, precision)
             IN  [cache |-> IF r.ok THEN cache_store(c, key, r.value) ELSE c,
                  ok |-> r.ok, error |-> r.error, value |-> r.value,
                  encoded |-> r.encoded, lookups |-> <<key>>]

-----------------------------------------------------------------------------
(* calculate_geohashes (lines 57-67) *)

\* a call of _calculate_single_geohash inside a run: the run acc extended
run_step(acc, r) ==
    [cache |-> r.cache, ok |-> r.ok, error |-> r.error,
     value |-> IF r.ok THEN Append(acc.value, r.value) ELSE <<>>,
     encoded |-> acc.encoded \o r.encoded,
     lookups |-> acc.lookups \o r.lookups]

\* mutant: the results are collected in reverse order
RECURSIVE comprehension_reversed(_, _, _, _, _)
comprehension_reversed(acc, lats, lons, precision, i) ==
    IF i > Min(Len(lats), Len(lons)) THEN acc
    ELSE LET r == calculate_single_geohash(acc.cache, lats[i], lons[i],
                                           precision)
             step == [run_step(acc, r) EXCEPT
                        !.value = IF r.ok THEN <<r.value>> \o acc.value
                                  ELSE <<>>]
         IN  IF r.ok
             THEN comprehension_reversed(step, lats, lons, precision, i + 1)
             ELSE step

\* mutant: a failing element blanks the values held in the cache
RECURSIVE comprehension_poisoning(_, _, _, _, _)
comprehension_poisoning(acc, lats, lons, precision, i) ==
    IF i > Min(Len(lats), Len(lons)) THEN acc
    ELSE LET r == calculate_single_geohash(acc.cache, lats[i], lons[i],
                                           precision)
             step == run_step(acc, r)
         IN  IF r.ok
             THEN comprehension_poisoning(step, lats, lons, precision, i + 1)
             ELSE [step EXCEPT
                     !.cache = [j \in 1..Len(r.cache) |->
                                  [key |-> r.cache[j].key, val |-> <<>>]]]

\* mutant: every element is processed and the last error is the one raised
RECURSIVE comprehension_last_error(_, _, _, _, _)
comprehension_last_error(acc, lats, lons, precision, i) ==
    IF i > Min(Len(lats), Len(lons)) THEN acc
    ELSE LET r == calculate_single_geohash(acc.cache, lats[i], lons[i],
                                           precision)
             step == run_step(acc, r)
             next == IF r.ok /\ ~acc.ok
                     THEN [step EXCEPT !.ok = FALSE, !.error = acc.error,
                                       !.value = <<>>]
                     ELSE step
         IN  comprehension_last_error(next, lats, lons, precision, i + 1)

\* the list comprehension over zip(lats, lons), from element i on: acc is
\* the run so far (cache, results, encoder calls, lookups)
RECURSIVE comprehension(_, _, _, _, _)
comprehension(acc, lats, lons, precision, i) ==
    IF i > Min(Len(lats), Len(lons)) THEN acc
    ELSE LET r == calculate_single_geohash(acc.cache, lats[i], lons[i],
                                           precision)
             step == run_step(acc, r)
         IN  IF r.ok THEN comprehension(step, lats, lons, precision, i + 1)
             ELSE step

\* the run before the first element
empty_run(c) ==
    [cache |-> c, ok |-> TRUE, error |-> NoError, value |-> <<>>,
     encoded |-> <<>>, lookups |-> <<>>]

length_error(c, lats, lons) ==
    [cache |-> c, ok |-> FALSE,
     error |-> [kind |-> "length", got |-> <<Len(lats), Len(lons)>>],
     value |-> <<>>, encoded |-> <<>>, lookups |-> <<>>]

\* mutant: no length check, zip stops at the shorter list
calculate_geohashes_no_length_check(c, lats, lons, precision) ==
    IF lats = <<>> THEN empty_run(c)
    ELSE comprehension(empty_run(c), lats, lons, precision, 1)

\* mutant: the precision is validated once, before anything else
calculate_geohashes_precision_first(c, lats, lons, precision) ==
    IF ~(1 <= precision /\ precision <= 12)
    THEN [empty_run(c) EXCEPT
            !.ok = FALSE,
            !.error = [kind |-> "precision", got |-> <<precision>>]]
    ELSE IF Len(lats) # Len(lons) THEN length_error(c, lats, lons)
    ELSE IF lats = <<>> THEN empty_run(c)
    ELSE comprehension(empty_run(c), lats, lons, precision, 1)

\* mutant: a failing call puts the cache back as it was
calculate_geohashes_rollback(c, lats, lons, precision) ==
    IF Len(lats) # Len(lons) THEN length_error(c, lats, lons)
    ELSE IF lats = <<>> THEN empty_run(c)
    ELSE LET r == comprehension(empty_run(c), lats, lons, precision, 1)
         IN  IF r.ok THEN r ELSE [r EXCEPT !.cache = c]

\* mutant: a precision out of range is brought back into 1..12
calculate_geohashes_clamped_precision(c, lats, lons, precision) ==
    LET p == IF precision < 1 THEN 1
             ELSE IF precision > 12 THEN 12 ELSE precision
    IN  IF Len(lats) # Len(lons) THEN length_error(c, lats, lons)
        ELSE IF lats = <<>> THEN empty_run(c)
        ELSE comprehension(empty_run(c), lats, lons, p, 1)

calculate_geohashes(c, lats, lons, precision) ==
    IF Len(lats) # Len(lons) THEN length_error(c, lats, lons)
    ELSE IF lats = <<>> THEN empty_run(c)
    ELSE comprehension(empty_run(c), lats, lons, precision, 1)

-----------------------------------------------------------------------------
(* The state machine *)

NoCall == [op |-> "none", lats |-> <<>>, lons |-> <<>>, precision |-> 0]
NoOutcome == [status |-> "none", value |-> <<>>, error |-> NoError]
Nothing ==
    [set |-> FALSE, call |-> NoCall, value |-> <<>>, later |-> FALSE,
     failed |-> FALSE]

Init ==
    /\ cache = <<>>
    /\ before = <<>>
    /\ call = NoCall
    /\ outcome = NoOutcome
    /\ encoded = <<>>
    /\ lookups = <<>>
    /\ remembered = Nothing

\* the effect of one call with run r on everything but the history variable
Return(r, op, lats, lons, precision) ==
    /\ cache' = r.cache
    /\ before' = cache
    /\ call' = [op |-> op, lats |-> lats, lons |-> lons,
                precision |-> precision]
    /\ outcome' = [status |-> IF r.ok THEN "ok" ELSE "error",
                   value |-> r.value, error |-> r.error]
    /\ encoded' = r.encoded
    /\ lookups' = r.lookups

\* a caller calls calculate_geohashes(lats, lons, precision)
CalculateGeohashes(lats, lons, precision) ==
    Return(calculate_geohashes(cache, lats, lons, precision),
           "batch", lats, lons, precision)

\* a caller (the tests) calls _calculate_single_geohash(lat, lon, precision)
CalculateSingleGeohash(lat, lon, precision) ==
    Return(calculate_single_geohash(cache, lat, lon, precision),
           "single", <<lat>>, <<lon>>, precision)

SeqsUpTo(S, n) == UNION {[1..k -> S] : k \in 0..n}

\* lists of equal length, element by element from Points
EqualInputs ==
    {[lats |-> [i \in DOMAIN ps |-> ps[i][1]],
      lons |-> [i \in DOMAIN ps |-> ps[i][2]]] : ps \in SeqsUpTo(Points, MaxLen)}

\* lists of different lengths
MismatchedInputs ==
    {[lats |-> [i \in 1..n[1] |-> pt[1]], lons |-> [i \in 1..n[2] |-> pt[2]]] :
        n \in {m \in (0..MaxLen) \X (0..MaxLen) : m[1] # m[2]}, pt \in Points}

BatchStep ==
    \E a \in EqualInputs \cup MismatchedInputs, p \in Precisions :
        /\ CalculateGeohashes(a.lats, a.lons, p)
        /\ UNCHANGED remembered

SingleStep ==
    \E pt \in Points, p \in Precisions :
        /\ CalculateSingleGeohash(pt[1], pt[2], p)
        /\ UNCHANGED remembered

Next == BatchStep \/ SingleStep

Spec == Init /\ [][Next]_vars

-----------------------------------------------------------------------------
(* Single coordinates at the edges of the ranges.  Every behaviour keeps   *)
(* to one coordinate (the first call picks it) and calls it at every       *)
(* precision from 0 to 13, directly and as a one-element batch.            *)

SamePoint(pt) ==
    IF call.op = "none" THEN TRUE ELSE <<call.lats[1], call.lons[1]>> = pt

EdgeBatchStep ==
    \E pt \in EdgePoints, p \in EdgePrecisions :
        /\ SamePoint(pt)
        /\ CalculateGeohashes(<<pt[1]>>, <<pt[2]>>, p)
        /\ UNCHANGED remembered

EdgeSingleStep ==
    \E pt \in EdgePoints, p \in EdgePrecisions :
        /\ SamePoint(pt)
        /\ CalculateSingleGeohash(pt[1], pt[2], p)
        /\ UNCHANGED remembered

NextEdge == EdgeBatchStep \/ EdgeSingleStep

SpecEdge == Init /\ [][NextEdge]_vars

-----------------------------------------------------------------------------
(* Repeated calls.  The history variable remembers one successful batch    *)
(* call (any one: the choice is free), then records whether a later call   *)
(* was made and whether a later call failed.                               *)

HistEqualInputs ==
    {[lats |-> [i \in DOMAIN ps |-> ps[i][1]],
      lons |-> [i \in DOMAIN ps |-> ps[i][2]]] :
        ps \in SeqsUpTo(HistPoints, MaxLen)}

HistMismatchedInputs ==
    {[lats |-> [i \in 1..n |-> SF[1]], lons |-> [i \in 1..(n - 1) |-> SF[2]]] :
        n \in 1..MaxLen}

Remember ==
    IF remembered.set
    THEN remembered' = [remembered EXCEPT
                            !.later = TRUE,
                            !.failed = @ \/ outcome'.status = "error"]
    ELSE \/ remembered' = remembered
         \/ /\ outcome'.status = "ok"
            /\ remembered' = [set |-> TRUE, call |-> call',
                              value |-> outcome'.value,
                              later |-> FALSE, failed |-> FALSE]

HistBatchStep ==
    \E a \in HistEqualInputs \cup HistMismatchedInputs, p \in HistPrecisions :
        /\ CalculateGeohashes(a.lats, a.lons, p)
        /\ Remember

NextHist == HistBatchStep

SpecHist == Init /\ [][NextHist]_vars

-----------------------------------------------------------------------------
(* Cache keys.  Valid calls only, on coordinates and precisions that       *)
(* differ from one another in one component of the triple or in several.   *)

KeyBatchStep ==
    \E pt \in KeyPoints, p \in KeyPrecisions :
        /\ CalculateGeohashes(<<pt[1]>>, <<pt[2]>>, p)
        /\ UNCHANGED remembered

KeySingleStep ==
    \E pt \in KeyPoints, p \in KeyPrecisions :
        /\ CalculateSingleGeohash(pt[1], pt[2], p)
        /\ UNCHANGED remembered

NextKey == KeyBatchStep \/ KeySingleStep

SpecKey == Init /\ [][NextKey]_vars

-----------------------------------------------------------------------------
(* Properties.  Ranges and the alphabet are written out here as the        *)
(* documentation states them, apart from the definitions above.            *)

LatInRange(lat) == -900000 <= lat /\ lat <= 900000
LonInRange(lon) == -1800000 <= lon /\ lon <= 1800000
PrecisionInRange(p) == p \in 1..12
Valid(lat, lon, p) == LatInRange(lat) /\ LonInRange(lon) /\ PrecisionInRange(p)

Alphabet ==
    { "0", "1", "2", "3", "4", "5", "6", "7", "8", "9", "b", "c", "d", "e",
      "f", "g", "h", "j", "k", "m", "n", "p", "q", "r", "s", "t", "u", "v",
      "w", "x", "y", "z" }

IsBatch == call.op = "batch"
Mismatched == IsBatch /\ Len(call.lats) # Len(call.lons)
EqualLength == IsBatch /\ Len(call.lats) = Len(call.lons)
OneElement == call.op # "none" /\ Len(call.lats) = 1 /\ Len(call.lons) = 1

\* 0, or the first index of the last call whose element does not validate
FirstInvalid ==
    LET bad == {i \in 1..Min(Len(call.lats), Len(call.lons)) :
                    ~Valid(call.lats[i], call.lons[i], call.precision)}
    IN  IF bad = {} THEN 0 ELSE CHOOSE i \in bad : \A j \in bad : i <= j

\* C1: a call of calculate_geohashes with lists of different lengths fails
\* with the "must have same length" error carrying both lengths, returns
\* nothing, hands no element to the encoder and leaves the cache as it was,
\* whatever the elements and the precision are.
C1_LengthMismatchFails ==
    Mismatched =>
        /\ outcome.status = "error"
        /\ outcome.error = [kind |-> "length",
                            got |-> <<Len(call.lats), Len(call.lons)>>]
        /\ outcome.value = <<>>
        /\ encoded = <<>>
        /\ cache = before

\* a mismatched call with an element and a precision out of range, made on
\* a non-empty cache
C1_Witness ==
    /\ Mismatched
    /\ Len(call.lats) = 2 /\ Len(call.lons) = 1
    /\ ~LatInRange(call.lats[1]) /\ ~PrecisionInRange(call.precision)
    /\ before # <<>>
    /\ outcome.error.kind = "length"

\* C2: a call on a single coordinate fails exactly when the latitude is
\* outside [-90, 90], the longitude outside [-180, 180] or the precision
\* outside [1, 12]; the end points themselves are accepted and give a
\* result.
C2_FailsIffOutOfRange ==
    OneElement =>
        /\ outcome.status \in {"ok", "error"}
        /\ outcome.status = "error" <=>
              ~Valid(call.lats[1], call.lons[1], call.precision)
        /\ outcome.status = "error" =>
              outcome.error.kind \in {"latitude", "longitude", "precision"}
        /\ outcome.status = "ok" => outcome.value # <<>>

\* the end points -90, 180 and 12, not in the cache, accepted
C2_Witness ==
    /\ call.op = "single"
    /\ call.lats = << -900000 >> /\ call.lons = <<1800000>>
    /\ call.precision = 12
    /\ encoded # <<>>
    /\ outcome.status = "ok" /\ Len(outcome.value) = 12

\* C3: calculate_geohashes on two empty lists returns the empty list for
\* every precision, in range or not, without a cache lookup, a change of
\* the cache or a call of the encoder.
C3_EmptyInput ==
    (IsBatch /\ call.lats = <<>> /\ call.lons = <<>>) =>
        /\ outcome = [status |-> "ok", value |-> <<>>, error |-> NoError]
        /\ lookups = <<>>
        /\ encoded = <<>>
        /\ cache = before

\* the empty call at precision 13 on a non-empty cache
C3_Witness ==
    /\ IsBatch /\ call.lats = <<>> /\ call.lons = <<>>
    /\ call.precision = 13
    /\ before # <<>>
    /\ outcome.status = "ok"

\* the cache after _calculate_single_geohash has been called on the first
\* n elements of the lists, one call after the other, starting from c
RECURSIVE AfterSingles(_, _, _, _, _)
AfterSingles(c, lats, lons, p, n) ==
    IF n = 0 THEN c
    ELSE calculate_single_geohash(AfterSingles(c, lats, lons, p, n - 1),
                                  lats[n], lons[n], p).cache

\* C4: when a call on non-empty lists of equal length fails because element
\* k does not validate, nothing is returned and the cache is the one that
\* calling _calculate_single_geohash on the elements before k, in order,
\* leaves: contents and recency order; the writes of the prefix stay.
C4_FailedBatchKeepsPrefix ==
    (EqualLength /\ call.lats # <<>> /\ outcome.status = "error") =>
        /\ FirstInvalid # 0
        /\ outcome.value = <<>>
        /\ cache = AfterSingles(before, call.lats, call.lons, call.precision,
                                FirstInvalid - 1)

\* a call that failed at its second element after its first element was
\* stored and evicted an entry
C4_Witness ==
    /\ EqualLength /\ outcome.status = "error"
    /\ FirstInvalid = 2
    /\ Len(before) = maxsize
    /\ cache # before
    /\ encoded # <<>>

\* C5: after a failing call (an element or the precision out of range, or
\* lists of different lengths) anywhere in between, a call with inputs that
\* succeeded before succeeds again and returns the same results.
C5_SameResultAfterFailure ==
    (remembered.set /\ remembered.failed /\ call = remembered.call) =>
        /\ outcome.status = "ok"
        /\ outcome.value = remembered.value

\* a remembered non-empty call, repeated after a failing call
C5_Witness ==
    /\ remembered.set /\ remembered.failed /\ call = remembered.call
    /\ Len(call.lats) >= 1
    /\ outcome.status = "ok"

\* what the last call gives when every element is validated and encoded
\* anew by the function body, with no cache
RECURSIVE UncachedRun(_, _, _, _)
UncachedRun(lats, lons, p, n) ==
    IF n = 0 THEN [status |-> "ok", value |-> <<>>, error |-> NoError]
    ELSE LET pre == UncachedRun(lats, lons, p, n - 1)
             r == single_geohash_body(lats[n], lons[n], p)
         IN  IF pre.status = "error" THEN pre
             ELSE IF r.ok THEN [pre EXCEPT !.value = Append(@, r.value)]
             ELSE [status |-> "error", value |-> <<>>, error |-> r.error]

Uncached ==
    IF call.op = "single"
    THEN LET r == single_geohash_body(call.lats[1], call.lons[1],
                                      call.precision)
         IN  [status |-> IF r.ok THEN "ok" ELSE "error", value |-> r.value,
              error |-> r.error]
    ELSE IF Len(call.lats) # Len(call.lons)
    THEN [status |-> "error", value |-> <<>>,
          error |-> [kind |-> "length",
                     got |-> <<Len(call.lats), Len(call.lons)>>]]
    ELSE UncachedRun(call.lats, call.lons, call.precision, Len(call.lats))

\* C6: the cache changes no outcome: every call returns the geohashes, or
\* raises the error, that the same call gives when every element is
\* validated and encoded anew, in every state of the cache.
C6_CacheIsTransparent ==
    call.op # "none" => outcome = Uncached

\* a batch of two different coordinates answered from a full cache alone
C6_Witness ==
    /\ IsBatch /\ Len(call.lats) = 2 /\ call.lats[1] # call.lats[2]
    /\ outcome.status = "ok"
    /\ Len(before) = maxsize
    /\ lookups # <<>> /\ encoded = <<>>

\* C7: a call of calculate_geohashes with the arguments of an earlier
\* successful call returns the same results, element for element, whatever
\* calls were made in between; equal pairs inside one batch get equal
\* geohashes.
C7_Deterministic ==
    /\ (remembered.set /\ remembered.later /\ call = remembered.call) =>
          /\ outcome.status = "ok"
          /\ Len(outcome.value) = Len(remembered.value)
          /\ \A i \in 1..Len(outcome.value) :
                outcome.value[i] = remembered.value[i]
    /\ (EqualLength /\ outcome.status = "ok") =>
          \A i, j \in 1..Len(outcome.value) :
              (call.lats[i] = call.lats[j] /\ call.lons[i] = call.lons[j]) =>
                  outcome.value[i] = outcome.value[j]

\* a remembered call repeated later, when its entry had been evicted and
\* the element was encoded again
C7_Witness ==
    /\ remembered.set /\ remembered.later /\ call = remembered.call
    /\ Len(call.lats) = 2
    /\ encoded # <<>>
    /\ outcome.status = "ok"

\* C8: a successful call returns as many geohashes as it was given pairs,
\* and the i-th is the geohash of the i-th pair at the call's precision,
\* the one _calculate_single_geohash returns for it.
C8_OrderPreserved ==
    (IsBatch /\ outcome.status = "ok") =>
        /\ Len(outcome.value) = Len(call.lats)
        /\ Len(outcome.value) = Len(call.lons)
        /\ \A i \in 1..Len(call.lats) :
              LET r == calculate_single_geohash(cache, call.lats[i],
                                                call.lons[i], call.precision)
              IN  r.ok /\ outcome.value[i] = r.value

\* a successful batch of two different coordinates with different geohashes
C8_Witness ==
    /\ IsBatch /\ outcome.status = "ok"
    /\ Len(call.lats) = 2
    /\ <<call.lats[1], call.lons[1]>> # <<call.lats[2], call.lons[2]>>
    /\ outcome.value[1] # outcome.value[2]

\* C9: the cache never holds more entries than its capacity, and no two
\* entries are for the same (latitude, longitude, precision) triple.
C9_CacheBounded ==
    /\ Len(cache) <= maxsize
    /\ \A i, j \in 1..Len(cache) : cache[i].key = cache[j].key => i = j

\* a full cache after a call that stored a new entry in a full cache
C9_Witness ==
    /\ Len(before) = maxsize
    /\ Len(cache) = maxsize
    /\ encoded # <<>>
    /\ cache[1] # before[1]

\* C10: for a latitude, a longitude and a precision p in range, the call
\* calculate_geohashes([lat], [lon], p) returns one geohash of exactly p
\* characters, all of the alphabet 0123456789bcdefghjkmnpqrstuvwxyz.
C10_LengthAndAlphabet ==
    (IsBatch /\ OneElement
        /\ Valid(call.lats[1], call.lons[1], call.precision)) =>
        /\ outcome.status = "ok"
        /\ Len(outcome.value) = 1
        /\ Len(outcome.value[1]) = call.precision
        /\ \A k \in 1..Len(outcome.value[1]) : outcome.value[1][k] \in Alphabet

\* San Francisco at precision 12, encoded by the call
C10_Witness ==
    /\ IsBatch /\ OneElement
    /\ <<call.lats[1], call.lons[1]>> = SF
    /\ call.precision = 12
    /\ encoded # <<>>
    /\ outcome.status = "ok" /\ Len(outcome.value[1]) = 12

-----------------------------------------------------------------------------

ProperPrefix(a, b) == Len(a) < Len(b) /\ SubSeq(b, 1, Len(a)) = a

\* the geohash the last call returned for its single coordinate
Returned == IF IsBatch THEN outcome.value[1] ELSE outcome.value

\* C11: for one valid coordinate and precisions p < q in 1..12 the geohash
\* at precision p is a proper prefix of the geohash at precision q, so the
\* geohashes at two different precisions are never equal.  Stated of the
\* geohashes the calls returned: those held in the cache, and the one the
\* last call returned against those.
C11_PrefixMonotone ==
    /\ \A i, j \in 1..Len(cache) :
          (/\ cache[i].key[1] = cache[j].key[1]
           /\ cache[i].key[2] = cache[j].key[2]
           /\ cache[i].key[3] < cache[j].key[3]) =>
              /\ ProperPrefix(cache[i].val, cache[j].val)
              /\ cache[i].val # cache[j].val
    /\ (OneElement /\ outcome.status = "ok") =>
          \A i \in 1..Len(cache) :
              /\ cache[i].key[3] < call.precision =>
                    ProperPrefix(cache[i].val, Returned)
              /\ cache[i].key[3] > call.precision =>
                    ProperPrefix(Returned, cache[i].val)

\* San Francisco at precision 12 returned while its geohash at precision 1
\* is in the cache
C11_Witness ==
    /\ OneElement /\ outcome.status = "ok"
    /\ <<call.lats[1], call.lons[1]>> = SF
    /\ call.precision = 12
    /\ Len(cache) = 2
    /\ cache[1].key = <<SF[1], SF[2], 1>>
    /\ cache[1].val = <<"9">>

\* the reference tables of tests/test_data.py
EXPECTED_GEOHASHES_SF == <<"9", "q", "8", "y", "y", "k", "7", "m">>
EXPECTED_GEOHASHES_NY == <<"d", "r", "5", "r", "s", "j", "z", "q">>

\* C12: calculate_geohashes([37.7749], [-122.4194], 5) returns ["9q8yy"]
\* and calculate_geohashes([40.7128], [-74.0060], 5) returns ["dr5rs"]; at
\* every precision 1..8 the results for San Francisco and New York are the
\* entries of the reference tables.
C12_ReferenceValues ==
    (IsBatch /\ OneElement /\ call.precision \in 1..8) =>
        /\ <<call.lats[1], call.lons[1]>> = SF =>
              /\ outcome.status = "ok"
              /\ outcome.value =
                    <<SubSeq(EXPECTED_GEOHASHES_SF, 1, call.precision)>>
        /\ <<call.lats[1], call.lons[1]>> = NY =>
              /\ outcome.status = "ok"
              /\ outcome.value =
                    <<SubSeq(EXPECTED_GEOHASHES_NY, 1, call.precision)>>

\* C12, the documented example alone (docstring of calculate_geohashes)
C12_DocstringExample ==
    (IsBatch /\ OneElement /\ call.precision = 5) =>
        /\ <<call.lats[1], call.lons[1]>> = SF =>
              outcome.value = << <<"9", "q", "8", "y", "y">> >>
        /\ <<call.lats[1], call.lons[1]>> = NY =>
              outcome.value = << <<"d", "r", "5", "r", "s">> >>

\* what the calls do return: the two tables hold up to precision 6 for San
\* Francisco and up to precision 4 for New York
C12_AgreedPrefixes ==
    (IsBatch /\ OneElement) =>
        /\ (<<call.lats[1], call.lons[1]>> = SF /\ call.precision \in 1..6) =>
              outcome.value =
                    <<SubSeq(EXPECTED_GEOHASHES_SF, 1, call.precision)>>
        /\ (<<call.lats[1], call.lons[1]>> = NY /\ call.precision \in 1..4) =>
              outcome.value =
                    <<SubSeq(EXPECTED_GEOHASHES_NY, 1, call.precision)>>
        /\ (<<call.lats[1], call.lons[1]>> = NY /\ call.precision = 8) =>
              outcome.value = << <<"d", "r", "5", "r", "e", "g", "w", "3">> >>
        /\ (<<call.lats[1], call.lons[1]>> = SF /\ call.precision = 8) =>
              outcome.value = << <<"9", "q", "8", "y", "y", "k", "8", "y">> >>

-----------------------------------------------------------------------------

\* error e is one of the three range errors, raised for element k of the
\* last call with the value that is out of range
RangeTrigger(e, k) ==
    /\ e.kind = "latitude" =>
          ~LatInRange(call.lats[k]) /\ e.got = <<call.lats[k]>>
    /\ e.kind = "longitude" =>
          ~LonInRange(call.lons[k]) /\ e.got = <<call.lons[k]>>
    /\ e.kind = "precision" =>
          ~PrecisionInRange(call.precision) /\ e.got = <<call.precision>>

\* C13: every failure is a ValueError of one of four triggers - latitude,
\* longitude or precision out of range, lists of different lengths - and
\* carries the offending value(s); no call ends in another error, and no
\* value stands in for a failing element: a call that returns has no
\* trigger at all.
C13_FourTriggers ==
    /\ outcome.status = "error" =>
          /\ outcome.value = <<>>
          /\ outcome.error.kind \in
                {"latitude", "longitude", "precision", "length"}
          /\ outcome.error.kind = "length" =>
                /\ Mismatched
                /\ outcome.error.got = <<Len(call.lats), Len(call.lons)>>
          /\ outcome.error.kind # "length" =>
                /\ ~Mismatched
                /\ \E k \in 1..Len(call.lats) : RangeTrigger(outcome.error, k)
    /\ outcome.status = "ok" =>
          /\ ~Mismatched
          /\ FirstInvalid = 0
          /\ outcome.error = NoError

\* a batch that failed on a longitude out of range in its second element
C13_Witness ==
    /\ EqualLength /\ Len(call.lats) = 2
    /\ outcome.status = "error"
    /\ outcome.error = [kind |-> "longitude", got |-> <<1810000>>]
    /\ LonInRange(call.lons[1])

SingleKey == <<call.lats[1], call.lons[1], call.precision>>
SingleValid == Valid(call.lats[1], call.lons[1], call.precision)
KeysOf(c) == {c[i].key : i \in 1..Len(c)}

\* C14 as claimed: _calculate_single_geohash validates first, so a triple
\* that fails validation causes no cache lookup.
C14_ValidationBeforeLookup ==
    (call.op = "single" /\ ~SingleValid) => lookups = <<>>

\* C14 as amended: _calculate_single_geohash looks its triple up in the
\* cache first, on every call, and validates only after a miss: a triple
\* that fails validation causes exactly one lookup, which misses, and the
\* error is raised before the encoder is invoked.
C14_LookupBeforeValidation ==
    call.op = "single" =>
        /\ lookups = <<SingleKey>>
        /\ ~SingleValid =>
              /\ SingleKey \notin KeysOf(before)
              /\ outcome.status = "error"
              /\ encoded = <<>>

\* a call with a latitude out of range made on a non-empty cache
C14_Witness ==
    /\ call.op = "single"
    /\ ~LatInRange(call.lats[1])
    /\ before # <<>>
    /\ lookups # <<>>
    /\ outcome.status = "error"

\* C15: a call of _calculate_single_geohash that fails validation leaves
\* the cache as it was: nothing stored for the triple, nothing evicted even
\* from a full cache, the recency order unchanged.
C15_FailureKeepsCache ==
    (call.op = "single" /\ outcome.status = "error") =>
        /\ cache = before
        /\ SingleKey \notin KeysOf(cache)

\* a failing call on a full cache
C15_Witness ==
    /\ call.op = "single" /\ outcome.status = "error"
    /\ Len(before) = maxsize
    /\ ~PrecisionInRange(call.precision)

\* the entry of cache c stored under key
EntryOf(c, key) == c[CHOOSE i \in 1..Len(c) : c[i].key = key]

\* C16: on a cache hit the stored geohash is returned and the external
\* encoder is not invoked, so a triple is encoded at most once while its
\* entry stays in the cache; on a miss for a valid triple the encoder is
\* invoked exactly once and its result is stored.
C16_HitSkipsEncoder ==
    /\ (OneElement /\ SingleKey \in KeysOf(before)) =>
          /\ encoded = <<>>
          /\ outcome.status = "ok"
          /\ Returned = EntryOf(before, SingleKey).val
          /\ EntryOf(cache, SingleKey) = EntryOf(before, SingleKey)
    /\ (OneElement /\ SingleKey \notin KeysOf(before) /\ SingleValid) =>
          /\ encoded = <<SingleKey>>
          /\ outcome.status = "ok"
          /\ cache # <<>>
          /\ cache[Len(cache)] = [key |-> SingleKey, val |-> Returned]
    /\ (EqualLength /\ Len(call.lats) > 1
        /\ \A k \in 1..Len(call.lats) :
              /\ call.lats[k] = call.lats[1]
              /\ call.lons[k] = call.lons[1]) =>
          Len(encoded) <= 1

\* a hit on an entry stored by an earlier call
C16_Witness ==
    /\ call.op = "single"
    /\ SingleKey \in KeysOf(before)
    /\ outcome.status = "ok"
    /\ encoded = <<>>
    /\ outcome.value = EntryOf(before, SingleKey).val

\* C17: least-recently-used eviction. An entry leaves the cache only when
\* a new valid triple is admitted to a full cache, and then exactly one
\* entry leaves, the least recently used one (the first of the sequence);
\* a hit makes its entry the most recently used one and removes nothing.
C17_LeastRecentlyUsedEviction ==
    /\ KeysOf(before) \ KeysOf(cache) # {} =>
          /\ encoded # <<>>
          /\ Len(before) + Len(encoded) > maxsize
          /\ Len(cache) = maxsize
    /\ (OneElement /\ SingleKey \in KeysOf(before)) =>
          LET i == CHOOSE j \in 1..Len(before) : before[j].key = SingleKey
          IN  cache = Append(SubSeq(before, 1, i - 1)
                                \o SubSeq(before, i + 1, Len(before)),
                             before[i])
    /\ (OneElement /\ SingleKey \notin KeysOf(before) /\ SingleValid) =>
          LET new == [key |-> SingleKey, val |-> Returned]
          IN  IF Len(before) = maxsize
              THEN cache = Append(Tail(before), new)
              ELSE cache = Append(before, new)
    /\ (OneElement /\ ~SingleValid) => cache = before

\* a new valid triple admitted to a full cache: the oldest entry leaves,
\* the others stay in their order
C17_Witness ==
    /\ OneElement /\ SingleValid
    /\ Len(before) = maxsize
    /\ maxsize > 1
    /\ SingleKey \notin KeysOf(before)
    /\ before[1].key \notin KeysOf(cache)
    /\ cache[1] = before[2]
    /\ cache[Len(cache)].key = SingleKey

\* C18: a call of calculate_geohashes with non-empty lists of equal length
\* and a precision outside 1..12 fails with a ValueError whatever the cache
\* holds, and stores nothing.
C18_BadPrecisionAlwaysFails ==
    (EqualLength /\ call.lats # <<>> /\ ~PrecisionInRange(call.precision)) =>
        /\ outcome.status = "error"
        /\ outcome.error.kind \in {"latitude", "longitude", "precision"}
        /\ outcome.value = <<>>
        /\ encoded = <<>>
        /\ cache = before

\* such a call made when the cache holds its first coordinate at another
\* precision
C18_Witness ==
    /\ EqualLength /\ call.lats # <<>> /\ ~PrecisionInRange(call.precision)
    /\ outcome.status = "error"
    /\ outcome.error = [kind |-> "precision", got |-> <<call.precision>>]
    /\ \E i \in 1..Len(before) :
          /\ before[i].key[1] = call.lats[1]
          /\ before[i].key[2] = call.lons[1]

\* C19: when elements of a call of calculate_geohashes on lists of equal
\* length fail validation, the error raised is that of the failing element
\* of lowest index, and no later element is looked up, encoded or cached.
C19_FirstFailureWins ==
    (EqualLength /\ FirstInvalid # 0) =>
        LET k == FirstInvalid
            Triple(j) == <<call.lats[j], call.lons[j], call.precision>>
        IN  /\ outcome.status = "error"
            /\ outcome.error.kind \in {"latitude", "longitude", "precision"}
            /\ RangeTrigger(outcome.error, k)
            /\ lookups = [j \in 1..k |-> Triple(j)]
            /\ \A n \in 1..Len(encoded) :
                  \E j \in 1..(k - 1) : encoded[n] = Triple(j)
            /\ KeysOf(cache) \ KeysOf(before) \subseteq
                  {Triple(j) : j \in 1..(k - 1)}

\* a batch whose first element has a longitude out of range and whose
\* second element has a latitude out of range
C19_Witness ==
    /\ EqualLength /\ Len(call.lats) = 2
    /\ ~LonInRange(call.lons[1]) /\ LatInRange(call.lats[1])
    /\ ~LatInRange(call.lats[2])
    /\ PrecisionInRange(call.precision)
    /\ outcome.status = "error"
    /\ outcome.error.kind = "longitude"
    /\ Len(lookups) = 1

\* i and j are entries of cache c whose keys differ in exactly one
\* component of the triple
DifferInOne(c, i, j) ==
    Cardinality({n \in 1..3 : c[i].key[n] # c[j].key[n]}) = 1

\* C20: the cache is keyed by the whole triple (latitude, longitude,
\* precision): a call shares an entry with an earlier one if and only if
\* all three components are equal, so one coordinate at two precisions, or
\* two coordinates that differ in one component, have entries of their own
\* and never get each other's geohash.
C20_KeyedByWholeTriple ==
    /\ OneElement =>
          /\ encoded = <<>> <=> SingleKey \in KeysOf(before)
          /\ outcome.status = "ok" =>
                /\ SingleKey \in KeysOf(cache)
                /\ Returned = EntryOf(cache, SingleKey).val
                /\ \A i \in 1..Len(cache) :
                      cache[i].key # SingleKey => cache[i].val # Returned
    /\ \A i, j \in 1..Len(cache) :
          i # j => /\ cache[i].key # cache[j].key
                   /\ cache[i].val # cache[j].val

\* the call's triple differs in one component from a triple already in the
\* cache: it is encoded, stored next to the other, and gets another value
C20_Witness ==
    /\ call.op = "single" /\ outcome.status = "ok"
    /\ Len(before) = 1 /\ Len(cache) = 2
    /\ DifferInOne(cache, 1, 2)
    /\ cache[1].key[3] = cache[2].key[3]
    /\ cache[2].key = SingleKey
    /\ encoded = <<SingleKey>>
    /\ cache[1].val # outcome.value

\* C21: inside _calculate_single_geohash the latitude is checked before the
\* longitude and the longitude before the precision: when several of the
\* three values are out of range, the error raised is that of the first
\* failing check in this order (latitude 91 with longitude 181 and
\* precision 0 gives the latitude error).
C21_ValidationPrecedence ==
    OneElement =>
        LET lat == call.lats[1]
            lon == call.lons[1]
            p == call.precision
        IN  /\ ~LatInRange(lat) =>
                  /\ outcome.status = "error"
                  /\ outcome.error = [kind |-> "latitude", got |-> <<lat>>]
            /\ (LatInRange(lat) /\ ~LonInRange(lon)) =>
                  /\ outcome.status = "error"
                  /\ outcome.error = [kind |-> "longitude", got |-> <<lon>>]
            /\ (LatInRange(lat) /\ LonInRange(lon) /\ ~PrecisionInRange(p)) =>
                  /\ outcome.status = "error"
                  /\ outcome.error = [kind |-> "precision", got |-> <<p>>]

\* latitude 91, longitude 181 and precision 0 in one call
C21_Witness ==
    /\ call.op = "single"
    /\ call.lats = <<910000>> /\ call.lons = <<1810000>>
    /\ call.precision = 0
    /\ outcome.status = "error"
    /\ outcome.error = [kind |-> "latitude", got |-> <<910000>>]

\* longitude and precision out of range, latitude in range
C21_LongitudeBeforePrecision ==
    /\ call.op = "single"
    /\ LatInRange(call.lats[1]) /\ ~LonInRange(call.lons[1])
    /\ ~PrecisionInRange(call.precision)
    /\ outcome.error.kind = "longitude"

\* C22: in every reachable state every cache entry has a valid triple as
\* its key (latitude in [-90, 90], longitude in [-180, 180], precision in
\* 1..12) and, as its value, the external encoder's output for that key, a
\* string as long as the key's precision; the external encoder is never
\* invoked with a triple out of range.
C22_CacheContent ==
    /\ \A i \in 1..Len(cache) :
          LET k == cache[i].key
          IN  /\ Len(k) = 3
              /\ Valid(k[1], k[2], k[3])
              /\ cache[i].val = encode(k[1], k[2], k[3])
              /\ Len(cache[i].val) = k[3]
    /\ \A n \in 1..Len(encoded) :
          Valid(encoded[n][1], encoded[n][2], encoded[n][3])

\* a full cache after a batch that stored its first element and failed on
\* a later one
C22_Witness ==
    /\ EqualLength /\ outcome.status = "error"
    /\ FirstInvalid > 1
    /\ encoded # <<>>
    /\ Len(cache) = maxsize
    /\ cache # before
    /\ cache[Len(cache)].key = encoded[Len(encoded)]

====
